---- MODULE Spec2Model ----
(***************************************************************************)
(* Datex-Ohmeda DRI record decoders (driver/serial): record header,        *)
(* waveform decoder, alarm status message, and the multi-record stream     *)
(* splitters.  Byte buffers are sequences of 0..255; Go's 0-based offsets  *)
(* are kept and translated by At/Slice.  The HL7 server (driver/hl7) is    *)
(* modelled as its goroutines: Start, Stop, processMessages and one        *)
(* handleClient per connection.                                            *)
(***************************************************************************)
EXTENDS Integers, Sequences, FiniteSets, TLC

VARIABLES
    ret,        \* result of the last single decode call (SpecPure)
    pc,         \* "idle", the running top-level call, or "done"
    parser,     \* which parser instance is live: "none", "trend", "alarm", "wave"
    errors,     \* p.errors of the live TrendParser / AlarmParser
    data,       \* input buffer of the running / last top-level call
    wtype,      \* subrecordType given to ParseMultipleWaveforms
    offset,     \* loop variable of the stream splitters
    results,    \* local result slice of the stream splitters
    attempts,   \* offsets at which the per-record decoder was invoked
    returned,   \* what the top-level call handed back to its caller
    listener,   \* HL7Server.listener: "nil", "open" or "closed"
    clients,    \* HL7Server.clients: the registered client ids
    messageChan,\* number of messages buffered in HL7Server.messageChan
    stopChan,   \* HL7Server.stopChan: "open" or "closed"
    conn,       \* per client, its net.Conn: "none", "open" or "closed"
    handler,    \* per client, the position of its handleClient goroutine
    startPc,    \* position of Start
    stopPc,     \* position of Stop
    consumer    \* position of processMessages

hl7Vars == <<listener, clients, messageChan, stopChan, conn, handler, startPc, stopPc, consumer>>

streamVars == <<pc, parser, errors, data, wtype, offset, results, attempts, returned>>

decodeVars == <<ret, streamVars>>

vars == <<decodeVars, hl7Vars>>

-----------------------------------------------------------------------------
(* Bounds of the model                                                     *)

MaxRecords == 3

MaxHistory == 1

-----------------------------------------------------------------------------
(* PrimitiveCodec: encoding/binary little-endian helpers and Go slices     *)

At(d, i) == d[i + 1]

Slice(d, lo, hi) == SubSeq(d, lo + 1, hi)

SliceFrom(d, lo) == SubSeq(d, lo + 1, Len(d))

Uint16(d, i) == At(d, i) + 256 * At(d, i + 1)

\* a uint32 is kept as its two 16-bit halves, value = lo + 65536 * hi
U32(lo, hi) == [lo |-> lo, hi |-> hi]

Uint32(d, i) == U32(Uint16(d, i), Uint16(d, i + 2))

PutUint16(v) == <<v % 256, (v \div 256) % 256>>

PutUint32(v) == PutUint16(v.lo) \o PutUint16(v.hi)

\* uint16(x) for an int16 x
ToUint16(x) == x % 65536

\* int16(u) for a uint16 u
ToInt16(u) == IF u >= 32768 THEN u - 65536 ELSE u

Zeros(n) == [i \in 1..n |-> 0]

-----------------------------------------------------------------------------
(* Protocol constants                                                      *)

DRI_MT_PHDB == 0

DRI_MT_WAVE == 1

DRI_MT_ALARM == 4

DRI_EOL_SUBR_LIST == 255

DRI_LEVEL_95 == 2

DRI_LEVEL_06 == 12

DRI_PH_DISPL == 16

DRI_PH_10S_TREND == 17

DRI_PH_60S_TREND == 18

DRI_PH_AUX_INFO == 19

DRI_AL_STATUS == 1

DRI_PR1 == 1

DRI_WF_PLETH == 8

DRI_WF_CO2 == 9

DRI_WF_O2 == 10

DRI_WF_N2O == 11

DRI_WF_AA == 12

DRI_WF_AWP == 13

DRI_WF_INVP5 == 16

DRI_WF_INVP6 == 17

DRI_WF_ECG12 == 22

DRI_WF_INVP7 == 36

DRI_WF_INVP8 == 37

DRI_WF_PLETH_2 == 38

SAMPLE_RATE_ECG == 300

SAMPLE_RATE_ECG12 == 500

SAMPLE_RATE_INVP == 100

SAMPLE_RATE_PLETH == 100

SAMPLE_RATE_CO2 == 25

-----------------------------------------------------------------------------
(* SrDesc and DatexHeader                                                  *)

SrDesc_Size == 3

SrDesc_MarshalBinary(s) == PutUint16(ToUint16(s.SrOffset)) \o <<s.SrType>>

SrDesc_UnmarshalBinary(d) == [SrOffset |-> ToInt16(Uint16(d, 0)), SrType |-> At(d, 2)]

SrDesc_IsEndOfList(s) == s.SrType = DRI_EOL_SUBR_LIST

SrDesc_IsValid_NotZero(s) == s.SrType # 0

SrDesc_IsValid(s) == s.SrType # DRI_EOL_SUBR_LIST

DatexHeader_Size == 2 + 1 + 1 + 2 + 4 + 1 + 1 + 2 + 2 + 8 * 3

ZeroSrDesc == [SrOffset |-> 0, SrType |-> 0]

\* the zero value of the Go struct
ZeroHeader ==
    [RLen |-> 0, RNbr |-> 0, DriLevel |-> 0, PlugID |-> 0, RTime |-> U32(0, 0),
     NSubnet |-> 0, Reserved2 |-> 0, Reserved3 |-> 0, RMainType |-> 0,
     SrDesc |-> [i \in 0..7 |-> ZeroSrDesc]]

RECURSIVE MarshalSrDescs(_, _)
MarshalSrDescs(h, i) ==
    IF i = 8 THEN <<>>
    ELSE SrDesc_MarshalBinary(h.SrDesc[i]) \o MarshalSrDescs(h, i + 1)

DatexHeader_MarshalBinary(h) ==
    PutUint16(ToUint16(h.RLen)) \o <<h.RNbr>> \o <<h.DriLevel>>
        \o PutUint16(h.PlugID) \o PutUint32(h.RTime)
        \o <<h.NSubnet>> \o <<h.Reserved2>> \o PutUint16(h.Reserved3)
        \o PutUint16(ToUint16(h.RMainType))
        \o MarshalSrDescs(h, 0)

DecodeHeaderFields(d) ==
    [RLen |-> ToInt16(Uint16(d, 0)),
     RNbr |-> At(d, 2),
     DriLevel |-> At(d, 3),
     PlugID |-> Uint16(d, 4),
     RTime |-> Uint32(d, 6),
     NSubnet |-> At(d, 10),
     Reserved2 |-> At(d, 11),
     Reserved3 |-> Uint16(d, 12),
     RMainType |-> ToInt16(Uint16(d, 14)),
     SrDesc |-> [i \in 0..7 |-> SrDesc_UnmarshalBinary(SliceFrom(d, 16 + i * SrDesc_Size))]]

\* a decoder that reads r_maintype without the int16 conversion
DatexHeader_UnmarshalBinary_Unsigned(d) ==
    IF Len(d) < DatexHeader_Size
    THEN [err |-> "ErrInvalidDataLength", h |-> ZeroHeader]
    ELSE [err |-> "nil", h |-> [DecodeHeaderFields(d) EXCEPT !.RMainType = Uint16(d, 14)]]

DatexHeader_UnmarshalBinary(d) ==
    IF Len(d) < DatexHeader_Size
    THEN [err |-> "ErrInvalidDataLength", h |-> ZeroHeader]
    ELSE [err |-> "nil", h |-> DecodeHeaderFields(d)]

\* the error of ValidateReservedFields, "nil" when all three fields are zero
DatexHeader_ValidateReservedFields(h) ==
    IF h.NSubnet # 0 THEN "n_subnet must be zeroed"
    ELSE IF h.Reserved2 # 0 THEN "reserved2 must be zeroed"
    ELSE IF h.Reserved3 # 0 THEN "reserved3 must be zeroed"
    ELSE "nil"

\* the counting loop, from slot i on
RECURSIVE CountActiveFrom(_, _)
CountActiveFrom(h, i) ==
    IF i = 8 THEN 0
    ELSE (IF SrDesc_IsValid(h.SrDesc[i]) THEN 1 ELSE 0) + CountActiveFrom(h, i + 1)

DatexHeader_GetActiveSubrecordCount(h) == CountActiveFrom(h, 0)

-----------------------------------------------------------------------------
(* Waveform decoder                                                        *)

WaveformHeader_Size == 6

WaveformHeader_UnmarshalBinary(d) ==
    IF Len(d) < WaveformHeader_Size
    THEN [err |-> "ErrInvalidDataLength", h |-> [ActLen |-> 0, Status |-> 0, Label |-> 0]]
    ELSE [err |-> "nil",
          h |-> [ActLen |-> ToInt16(Uint16(d, 0)), Status |-> Uint16(d, 2), Label |-> Uint16(d, 4)]]

\* (h.Status & WF_STATUS_GAP) != 0, bit 0
HasGap(h) == h.Status % 2 = 1

\* (h.Status & WF_STATUS_PACER_DET) != 0, bit 2
HasPacerDetected(h) == (h.Status \div 4) % 2 = 1

\* (h.Status & WF_STATUS_LEAD_OFF) != 0, bit 3
HasLeadOff(h) == (h.Status \div 8) % 2 = 1

\* samples[i] = int16(Uint16(data[6+i*2 : 6+i*2+2])) for i < n
ReadSamples(d, n) == [i \in 1..n |-> ToInt16(Uint16(d, WaveformHeader_Size + (i - 1) * 2))]

IsControlCode(sample) == sample <= -32000

\* a float64 result: NaN, or the quotient num / den
NaN == [nan |-> TRUE, num |-> 0, den |-> 1]

Quot(n, d) == [nan |-> FALSE, num |-> n, den |-> d]

ConvertSampleToPhysicalValue_NoGas(sample, subrecordType) ==
    IF IsControlCode(sample) THEN NaN
    ELSE IF subrecordType = DRI_WF_ECG12 THEN Quot(sample, 1)
    ELSE IF subrecordType \in {DRI_WF_INVP5, DRI_WF_INVP6, DRI_WF_INVP7, DRI_WF_INVP8}
         THEN Quot(sample, 100)
    ELSE IF subrecordType \in {DRI_WF_PLETH, DRI_WF_PLETH_2} THEN Quot(sample, 100)
    ELSE Quot(sample, 1)

ConvertSampleToPhysicalValue(sample, subrecordType) ==
    IF IsControlCode(sample) THEN NaN
    ELSE IF subrecordType = DRI_WF_ECG12 THEN Quot(sample, 1)
    ELSE IF subrecordType \in {DRI_WF_INVP5, DRI_WF_INVP6, DRI_WF_INVP7, DRI_WF_INVP8}
         THEN Quot(sample, 100)
    ELSE IF subrecordType \in {DRI_WF_PLETH, DRI_WF_PLETH_2} THEN Quot(sample, 100)
    ELSE IF subrecordType \in {DRI_WF_CO2, DRI_WF_O2, DRI_WF_N2O, DRI_WF_AA}
         THEN Quot(sample, 100)
    ELSE Quot(sample, 1)

GetSamplingRate(subrecordType) ==
    IF subrecordType = DRI_WF_ECG12 THEN SAMPLE_RATE_ECG12
    ELSE IF subrecordType \in {DRI_WF_INVP5, DRI_WF_INVP6, DRI_WF_INVP7, DRI_WF_INVP8}
         THEN SAMPLE_RATE_INVP
    ELSE IF subrecordType \in {DRI_WF_PLETH, DRI_WF_PLETH_2} THEN SAMPLE_RATE_PLETH
    ELSE IF subrecordType \in {DRI_WF_CO2, DRI_WF_O2, DRI_WF_N2O, DRI_WF_AA}
         THEN SAMPLE_RATE_CO2
    ELSE SAMPLE_RATE_ECG

NewWaveformParser(subrecordType) ==
    [subrecordType |-> subrecordType, samplingRate |-> GetSamplingRate(subrecordType)]

\* time.Now()-derived fields (Timestamp, Duration) are left out
convertToJSON(wp, header, samples) ==
    [SubrecordType |-> wp.subrecordType,
     Header |-> [ActLen |-> header.ActLen, Status |-> header.Status, Label |-> header.Label,
                 HasGap |-> HasGap(header),
                 HasPacerDetected |-> HasPacerDetected(header),
                 HasLeadOff |-> HasLeadOff(header)],
     Samples |-> [i \in 1..Len(samples) |->
                    [Index |-> i - 1,
                     RawValue |-> samples[i],
                     PhysicalValue |-> ConvertSampleToPhysicalValue(samples[i], wp.subrecordType),
                     IsControlCode |-> IsControlCode(samples[i])]],
     SamplingRate |-> wp.samplingRate,
     TotalSamples |-> Len(samples)]

\* Outcome of a call: status "ok" (nil error), "err" or "panic" (run-time panic);
\* a pointer or slice result is <<>> when nil and <<v>> otherwise.
WaveOutcome(status, err, json) == [status |-> status, err |-> err, json |-> json]

\* the length check compares against 6 + ActLen instead of 6 + ActLen*2
ParseWaveformData_HalfLength(wp, d) ==
    IF Len(d) < 6 THEN WaveOutcome("err", "data too short", <<>>)
    ELSE LET header == WaveformHeader_UnmarshalBinary(Slice(d, 0, 6)).h
             expectedLength == 6 + header.ActLen
         IN  IF Len(d) < expectedLength
             THEN WaveOutcome("err", "data length mismatch", <<>>)
             ELSE IF header.ActLen < 0 \/ Len(d) < 6 + header.ActLen * 2
             THEN WaveOutcome("panic", "panic", <<>>)
             ELSE WaveOutcome("ok", "nil",
                              <<convertToJSON(wp, header, ReadSamples(d, header.ActLen))>>)

ParseWaveformData(wp, d) ==
    IF Len(d) < 6 THEN WaveOutcome("err", "data too short", <<>>)
    ELSE LET header == WaveformHeader_UnmarshalBinary(Slice(d, 0, 6)).h
             expectedLength == 6 + header.ActLen * 2
         IN  IF Len(d) < expectedLength
             THEN WaveOutcome("err", "data length mismatch", <<>>)
             \* make([]int16, header.ActLen) with a negative length panics
             ELSE IF header.ActLen < 0
             THEN WaveOutcome("panic", "panic", <<>>)
             ELSE WaveOutcome("ok", "nil",
                              <<convertToJSON(wp, header, ReadSamples(d, header.ActLen))>>)

\* WaveformData.UnmarshalBinary on a zero WaveformData; Samples is <<>> while nil
WaveformData_UnmarshalBinary(d) ==
    IF Len(d) < WaveformHeader_Size
    THEN [status |-> "err", err |-> "ErrInvalidDataLength",
          Header |-> [ActLen |-> 0, Status |-> 0, Label |-> 0], Samples |-> <<>>]
    ELSE LET header == WaveformHeader_UnmarshalBinary(Slice(d, 0, WaveformHeader_Size)).h
             sampleCount == header.ActLen
         IN  IF Len(d) < WaveformHeader_Size + sampleCount * 2
             THEN [status |-> "err", err |-> "ErrInvalidDataLength",
                   Header |-> header, Samples |-> <<>>]
             ELSE IF sampleCount < 0
             THEN [status |-> "panic", err |-> "panic", Header |-> header, Samples |-> <<>>]
             ELSE [status |-> "ok", err |-> "nil", Header |-> header,
                   Samples |-> <<ReadSamples(d, sampleCount)>>]

-----------------------------------------------------------------------------
(* Alarm status message: the five display slots                            *)

AlarmDisplay_IsActiveAlarm(a) == a.Color >= DRI_PR1

GetActiveAlarmCount(msg) ==
    Cardinality({i \in 0..4 : AlarmDisplay_IsActiveAlarm(msg.AlDisp[i])})

\* the loop of GetHighestPriorityAlarm; highestAlarm is the slot index, -1 for nil
RECURSIVE HighestPriorityLoop(_, _, _, _)
HighestPriorityLoop(msg, i, highestPriority, highestAlarm) ==
    IF i = 5 THEN highestAlarm
    ELSE IF AlarmDisplay_IsActiveAlarm(msg.AlDisp[i]) /\ msg.AlDisp[i].Color < highestPriority
         THEN HighestPriorityLoop(msg, i + 1, msg.AlDisp[i].Color, i)
         ELSE HighestPriorityLoop(msg, i + 1, highestPriority, highestAlarm)

GetHighestPriorityAlarm(msg) == HighestPriorityLoop(msg, 0, 255, -1)

-----------------------------------------------------------------------------
(* Alarm status message decode                                             *)

AlarmDisplay_Size == 80 + 1 + 1 + 1 + 6 * 2

AlarmStatusMessage_Size == 2 + 1 + 2 + 2 + 1 + 5 * 93 + 5 * 2

\* AlarmDisplay.UnmarshalBinary on data[off:]; the 80 text bytes are not kept
AlarmDisplay_UnmarshalBinary(d, off) ==
    IF Len(d) - off < AlarmDisplay_Size
    THEN [err |-> "ErrInvalidDataLength",
          a |-> [TextChanged |-> FALSE, Color |-> 0, ColorChanged |-> FALSE]]
    ELSE [err |-> "nil",
          a |-> [TextChanged |-> At(d, off + 80) # 0,
                 Color |-> At(d, off + 81),
                 ColorChanged |-> At(d, off + 82) # 0]]

\* outcome "panic": binary.LittleEndian.Uint16 on a slice of fewer than 2 bytes
AlarmStatusMessage_UnmarshalBinary(d) ==
    LET none == [SoundOnOff |-> FALSE, SilenceInfo |-> 0,
                 AlDisp |-> [i \in 0..4 |->
                               [TextChanged |-> FALSE, Color |-> 0, ColorChanged |-> FALSE]]]
        disp(i) == AlarmDisplay_UnmarshalBinary(d, 8 + i * AlarmDisplay_Size)
        reserved4 == 8 + 5 * AlarmDisplay_Size
    IN  IF Len(d) < AlarmStatusMessage_Size
        THEN [status |-> "err", err |-> "ErrInvalidDataLength", msg |-> none]
        ELSE IF \E i \in 0..4 : disp(i).err # "nil"
        THEN [status |-> "err", err |-> "ErrInvalidDataLength", msg |-> none]
        ELSE IF \E i \in 0..4 : Len(d) - (reserved4 + 2 * i) < 2
        THEN [status |-> "panic", err |-> "panic", msg |-> none]
        ELSE [status |-> "ok", err |-> "nil",
              msg |-> [SoundOnOff |-> At(d, 2) # 0,
                       SilenceInfo |-> At(d, 7),
                       AlDisp |-> [i \in 0..4 |-> disp(i).a]]]

AlarmStatusMessage_ToJSON(msg) ==
    [kind |-> "alarm_status_message",
     sound_on_off |-> msg.SoundOnOff,
     silence_info |-> msg.SilenceInfo,
     colors |-> [i \in 0..4 |-> msg.AlDisp[i].Color],
     active_alarm_count |-> GetActiveAlarmCount(msg),
     highest_priority_alarm |-> GetHighestPriorityAlarm(msg)]

-----------------------------------------------------------------------------
(* Diagnostics: entries of a parser's errors list                          *)

Diag(msg) == [msg |-> msg]

addError(errs, msg) == Append(errs, Diag(msg))

\* Outcome of a decode step: status "ok" (nil error), "err" or "panic";
\* errors is p.errors afterwards; a pointer result is <<>> (nil) or <<v>>.
Outcome(status, err, json, errs) ==
    [status |-> status, err |-> err, json |-> json, errors |-> errs]

-----------------------------------------------------------------------------
(* TrendParser                                                             *)

\* DatexRecord is declared outside the given sources: a header followed by
\* the body bytes (Data)
DatexRecord_UnmarshalBinary(d) ==
    LET hr == DatexHeader_UnmarshalBinary(d)
    IN  IF hr.err # "nil"
        THEN [err |-> hr.err, Header |-> ZeroHeader, Data |-> <<>>]
        ELSE [err |-> "nil", Header |-> hr.h, Data |-> SliceFrom(d, DatexHeader_Size)]

\* the zero value of PhysiologicalDatabaseRecord; a nil variant pointer is <<>>
ZeroPhysRecord ==
    [Time |-> U32(0, 0),
     PhysData |-> [Basic |-> <<>>, Ext1 |-> <<>>, Ext2 |-> <<>>, Ext3 |-> <<>>],
     Marker |-> 0, Reserved |-> 0, ClDriLvlSubt |-> 0]

BasicPhysiologicalData_UnmarshalBinary(d) == [err |-> "nil", b |-> [Data |-> d]]

BasicPhysiologicalData_Size(b) == Len(b.Data)

\* UnmarshalBinary on the record value p; p in the result is the record
\* afterwards, also when an index expression panics part-way.  The class
\* payload is decoded from all of data[4:], and the marker is read at
\* offset = 4 + Basic.Size().
PhysiologicalDatabaseRecord_UnmarshalBinary(p, d) ==
    IF Len(d) < 8 THEN [status |-> "err", err |-> "ErrInvalidDataLength", p |-> p]
    ELSE LET basic == BasicPhysiologicalData_UnmarshalBinary(SliceFrom(d, 4))
             p1 == [p EXCEPT !.Time = Uint32(d, 0), !.PhysData.Basic = <<basic.b>>]
             off == 4 + BasicPhysiologicalData_Size(basic.b)
         IN  IF basic.err # "nil" THEN [status |-> "err", err |-> basic.err, p |-> p1]
             ELSE IF off >= Len(d)
             THEN [status |-> "panic", err |-> "panic", p |-> p1]
             ELSE IF off + 1 >= Len(d)
             THEN [status |-> "panic", err |-> "panic", p |-> [p1 EXCEPT !.Marker = At(d, off)]]
             ELSE IF Len(d) - (off + 2) < 2
             THEN [status |-> "panic", err |-> "panic",
                   p |-> [p1 EXCEPT !.Marker = At(d, off), !.Reserved = At(d, off + 1)]]
             ELSE [status |-> "ok", err |-> "nil",
                   p |-> [p1 EXCEPT !.Marker = At(d, off), !.Reserved = At(d, off + 1),
                                    !.ClDriLvlSubt = Uint16(d, off + 2)]]

parsePhysiologicalDatabaseRecord(errs, d) ==
    IF Len(d) < 8
    THEN Outcome("ok", "nil", <<>>, addError(errs, "Physiological database record too short"))
    ELSE LET r == PhysiologicalDatabaseRecord_UnmarshalBinary(ZeroPhysRecord, d)
         IN  IF r.status = "panic" THEN Outcome("panic", "panic", <<>>, errs)
             ELSE IF r.status = "err"
             THEN Outcome("ok", "nil", <<>>,
                          addError(errs, "Failed to parse physiological database record"))
             ELSE Outcome("ok", "nil", <<[kind |-> "phdb", size |-> Len(d)]>>, errs)

parseAuxiliaryPhysiologicalInfo(errs, d) ==
    IF Len(d) < 114
    THEN Outcome("ok", "nil", <<>>, addError(errs, "Auxiliary physiological info too short"))
    ELSE Outcome("ok", "nil", <<[kind |-> "aux_info", size |-> 114]>>, errs)

TrendParser_parseSubrecordData(errs, subrecordType, d) ==
    IF subrecordType \in {DRI_PH_DISPL, DRI_PH_10S_TREND, DRI_PH_60S_TREND}
    THEN parsePhysiologicalDatabaseRecord(errs, d)
    ELSE IF subrecordType = DRI_PH_AUX_INFO
    THEN parseAuxiliaryPhysiologicalInfo(errs, d)
    ELSE Outcome("ok", "nil", <<[kind |-> "raw_data", size |-> Len(d)]>>, errs)

SubrecordJSON(i, srDesc, payload) ==
    [Index |-> i, Offset |-> srDesc.SrOffset, Type |-> srDesc.SrType,
     IsValid |-> SrDesc_IsValid(srDesc), IsEndOfList |-> SrDesc_IsEndOfList(srDesc),
     Data |-> payload]

\* record.Data[srDesc.SrOffset:], the bytes the trend dispatcher decodes
TrendSubrecordData(record, srDesc) == SliceFrom(record.Data, srDesc.SrOffset)

\* the loop of parseSubrecords from slot i on; acc.json is trendJSON.Subrecords
RECURSIVE parseSubrecordsFrom(_, _, _)
parseSubrecordsFrom(record, i, acc) ==
    IF i = 8 \/ acc.status = "panic" THEN acc
    ELSE LET srDesc == record.Header.SrDesc[i]
         IN  IF SrDesc_IsValid(srDesc) /\ srDesc.SrOffset < Len(record.Data)
             THEN IF srDesc.SrOffset < 0
                  \* record.Data[srDesc.SrOffset:] with a negative offset
                  THEN Outcome("panic", "panic", acc.json, acc.errors)
                  ELSE LET r == TrendParser_parseSubrecordData(
                                    acc.errors, srDesc.SrType,
                                    TrendSubrecordData(record, srDesc))
                       IN  parseSubrecordsFrom(record, i + 1,
                               Outcome(r.status, r.err,
                                       Append(acc.json, SubrecordJSON(i, srDesc, r.json)),
                                       r.errors))
             ELSE parseSubrecordsFrom(record, i + 1,
                      Outcome("ok", "nil",
                              Append(acc.json, SubrecordJSON(i, srDesc, <<>>)), acc.errors))

parseSubrecords(record, errs) == parseSubrecordsFrom(record, 0, Outcome("ok", "nil", <<>>, errs))

\* PhysiologicalSubrecords is declared outside the given sources; phOk is
\* whether its UnmarshalBinary accepts the body
parsePhysiologicalData(errs, phOk) ==
    IF phOk THEN errs ELSE addError(errs, "Failed to parse physiological subrecords")

ParseTrendData(d, phOk) ==
    IF Len(d) < 32 THEN Outcome("err", "data too short for trend record", <<>>, <<>>)
    ELSE LET record == DatexRecord_UnmarshalBinary(d)
         IN  IF record.err # "nil"
             THEN Outcome("err", record.err, <<>>,
                          addError(<<>>, "Failed to parse Datex-Ohmeda record"))
             ELSE LET sub == parseSubrecords(record, <<>>)
                      errs == IF record.Header.RMainType = DRI_MT_PHDB
                              THEN parsePhysiologicalData(sub.errors, phOk)
                              ELSE sub.errors
                  IN  IF sub.status = "panic" THEN Outcome("panic", "panic", <<>>, sub.errors)
                      ELSE Outcome("ok", "nil",
                               <<[RecordType |-> "Trend Data",
                                  UnixTimestamp |-> record.Header.RTime,
                                  RecordNumber |-> record.Header.RNbr,
                                  DriLevel |-> record.Header.DriLevel,
                                  PlugID |-> record.Header.PlugID,
                                  MainType |-> record.Header.RMainType,
                                  Subrecords |-> sub.json,
                                  ParseErrors |-> errs]>>,
                               errs)

\* recordLen is int(Uint16(data[0:2])): the length word read unsigned
ValidateTrendData(d) ==
    IF Len(d) < 32 THEN "data too short for trend record"
    ELSE LET recordLen == Uint16(d, 0)
             driLevel == At(d, 3)
             mainType == ToInt16(Uint16(d, 28))
         IN  IF recordLen <= 0 \/ recordLen > Len(d) THEN "invalid record length"
             ELSE IF driLevel < DRI_LEVEL_95 \/ driLevel > DRI_LEVEL_06 THEN "invalid DRI level"
             ELSE IF mainType < 0 THEN "invalid main type"
             ELSE "nil"

-----------------------------------------------------------------------------
(* AlarmParser                                                             *)

parseAlarmStatusData(errs, d) ==
    LET r == AlarmStatusMessage_UnmarshalBinary(d)
    IN  IF r.status = "panic" THEN Outcome("panic", "panic", <<>>, errs)
        ELSE IF r.status = "err"
        THEN Outcome("ok", "nil", <<>>, addError(errs, "failed to parse alarm status message"))
        ELSE Outcome("ok", "nil", <<AlarmStatusMessage_ToJSON(r.msg)>>, errs)

AlarmParser_parseSubrecordData(errs, subrecordType, d) ==
    IF subrecordType = DRI_AL_STATUS THEN parseAlarmStatusData(errs, d)
    ELSE Outcome("ok", "nil", <<>>, addError(errs, "unknown alarm subrecord type"))

\* data[srDesc.SrOffset:], the bytes the alarm dispatcher and parseAlarmData
\* decode; d is the buffer handed to ParseAlarmData
AlarmSubrecordData(d, srDesc) == SliceFrom(d, srDesc.SrOffset)

\* the loop of parseAlarmSubrecords from slot i on; d is the whole record
RECURSIVE parseAlarmSubrecordsFrom(_, _, _, _)
parseAlarmSubrecordsFrom(header, d, i, acc) ==
    IF i = 8 \/ acc.status = "panic" THEN acc
    ELSE LET srDesc == header.SrDesc[i]
         IN  IF SrDesc_IsValid(srDesc) /\ srDesc.SrOffset >= 0 /\ srDesc.SrOffset < Len(d)
             THEN LET r == AlarmParser_parseSubrecordData(
                               acc.errors, srDesc.SrType, AlarmSubrecordData(d, srDesc))
                  IN  parseAlarmSubrecordsFrom(header, d, i + 1,
                          Outcome(r.status, r.err,
                                  Append(acc.json, SubrecordJSON(i, srDesc, r.json)),
                                  r.errors))
             ELSE parseAlarmSubrecordsFrom(header, d, i + 1,
                      Outcome("ok", "nil",
                              Append(acc.json, SubrecordJSON(i, srDesc, <<>>)), acc.errors))

parseAlarmSubrecords(header, d, errs) ==
    parseAlarmSubrecordsFrom(header, d, 0, Outcome("ok", "nil", <<>>, errs))

EmptyAlarmData == [kind |-> "none"]

\* a search for the alarm-status slot that ends at the first sentinel
parseAlarmData_StopAtSentinel(header, d, errs) ==
    LET found == {i \in 0..7 : /\ header.SrDesc[i].SrType = DRI_AL_STATUS
                                /\ \A j \in 0..i : SrDesc_IsValid(header.SrDesc[j])}
    IN  IF found = {} THEN Outcome("ok", "nil", EmptyAlarmData, errs)
        ELSE LET i == CHOOSE j \in found : \A k \in found : j <= k
                 srDesc == header.SrDesc[i]
             IN  IF srDesc.SrOffset >= 0 /\ srDesc.SrOffset < Len(d)
                 THEN LET r == AlarmStatusMessage_UnmarshalBinary(AlarmSubrecordData(d, srDesc))
                      IN  IF r.status = "panic"
                          THEN Outcome("panic", "panic", EmptyAlarmData, errs)
                          ELSE IF r.status = "err"
                          THEN Outcome("err", r.err, EmptyAlarmData,
                                       addError(errs, "failed to parse alarm subrecords"))
                          ELSE Outcome("ok", "nil", AlarmStatusMessage_ToJSON(r.msg), errs)
                 ELSE Outcome("ok", "nil", [kind |-> "empty"], errs)

\* parseAlarmData: the first valid slot of type DRI_AL_STATUS selects the
\* alarm-status message; json is alarmJSON.AlarmData
parseAlarmData(header, d, errs) ==
    LET found == {i \in 0..7 : SrDesc_IsValid(header.SrDesc[i])
                                  /\ header.SrDesc[i].SrType = DRI_AL_STATUS}
    IN  IF found = {} THEN Outcome("ok", "nil", EmptyAlarmData, errs)
        ELSE LET i == CHOOSE j \in found : \A k \in found : j <= k
                 srDesc == header.SrDesc[i]
             IN  IF srDesc.SrOffset >= 0 /\ srDesc.SrOffset < Len(d)
                 THEN LET r == AlarmStatusMessage_UnmarshalBinary(AlarmSubrecordData(d, srDesc))
                      IN  IF r.status = "panic"
                          THEN Outcome("panic", "panic", EmptyAlarmData, errs)
                          ELSE IF r.status = "err"
                          THEN Outcome("err", r.err, EmptyAlarmData,
                                       addError(errs, "failed to parse alarm subrecords"))
                          ELSE Outcome("ok", "nil", AlarmStatusMessage_ToJSON(r.msg), errs)
                 ELSE Outcome("ok", "nil", [kind |-> "empty"], errs)

ParseAlarmData(errs, d) ==
    IF Len(d) < 32
    THEN Outcome("err", "ErrInvalidDataLength", <<>>,
                 addError(errs, "data too short for alarm record"))
    ELSE LET hr == DatexHeader_UnmarshalBinary(Slice(d, 0, 32))
             header == hr.h
         IN  IF hr.err # "nil"
             THEN Outcome("err", hr.err, <<>>, addError(errs, "failed to parse header"))
             ELSE IF header.RMainType # DRI_MT_ALARM
             THEN Outcome("err", "invalid record type for alarm data", <<>>,
                          addError(errs, "expected alarm record type"))
             ELSE LET sub == parseAlarmSubrecords(header, d, errs)
                      ad == parseAlarmData(header, d, sub.errors)
                      errs2 == IF ad.status = "err"
                               THEN addError(ad.errors, "failed to parse alarm data")
                               ELSE ad.errors
                  IN  IF sub.status = "panic" \/ ad.status = "panic"
                      THEN Outcome("panic", "panic", <<>>, errs)
                      ELSE Outcome("ok", "nil",
                               <<[RecordType |-> "Alarm Data",
                                  UnixTimestamp |-> header.RTime,
                                  RecordNumber |-> header.RNbr,
                                  DriLevel |-> header.DriLevel,
                                  PlugID |-> header.PlugID,
                                  MainType |-> header.RMainType,
                                  Subrecords |-> sub.json,
                                  AlarmData |-> ad.json,
                                  IsValid |-> ad.status # "err",
                                  ParseErrors |-> errs2]>>,
                               errs2)

ValidateAlarmData(d) ==
    IF Len(d) < 32 THEN "data too short for alarm record"
    ELSE LET hr == DatexHeader_UnmarshalBinary(Slice(d, 0, 32))
         IN  IF hr.err # "nil" THEN "invalid header"
             ELSE IF hr.h.RMainType # DRI_MT_ALARM THEN "expected alarm record type"
             ELSE IF hr.h.RLen <= 0 \/ hr.h.RLen > Len(d) THEN "invalid record length"
             ELSE "nil"

-----------------------------------------------------------------------------
(* Inputs of the single decode calls                                       *)

MaxSamples == 3

Colors == {0, 1, 2, 3, 255}

Msgs == {[AlDisp |-> [i \in 0..4 |-> [Color |-> c[i]]]] : c \in [0..4 -> Colors]}

MsgOf(colors) == [AlDisp |-> [i \in 0..4 |-> [Color |-> colors[i + 1]]]]

Sentinel == [SrOffset |-> 0, SrType |-> DRI_EOL_SUBR_LIST]

DescSet == {Sentinel, [SrOffset |-> -2, SrType |-> DRI_AL_STATUS], [SrOffset |-> 300, SrType |-> 0]}

ScalarHeaders ==
    {[RLen |-> rl, RNbr |-> b, DriLevel |-> 255 - b, PlugID |-> w, RTime |-> t,
      NSubnet |-> r, Reserved2 |-> 255 - r, Reserved3 |-> 257 * r, RMainType |-> mt,
      SrDesc |-> [i \in 0..7 |-> sd]] :
        rl \in {-32768, -1, 0, 40, 32767}, b \in {0, 1, 255}, w \in {0, 258, 65535},
        t \in {U32(0, 0), U32(772, 258), U32(65535, 65535)}, r \in {0, 255},
        mt \in {-32768, -1, 0, 4, 32767}, sd \in DescSet}

DescHeaders == {[ZeroHeader EXCEPT !.RLen = 40, !.SrDesc = sd] : sd \in [0..7 -> DescSet]}

Headers == ScalarHeaders \cup DescHeaders

\* byte slices around the header length, cut from an encoded header plus padding
HeaderSlices ==
    {Slice(DatexHeader_MarshalBinary(h) \o <<1, 2, 3, 4>>, 0, n) :
        h \in {x \in ScalarHeaders : x.RNbr = 1 /\ x.PlugID = 258 /\ x.RTime = U32(0, 0)},
        n \in {0, 16, 31, 32, 33, 39, 40, 41, 44}}

SampleVals == {2500, -32000, 100}

SampleSeqs == UNION {[1..n -> SampleVals] : n \in 0..MaxSamples}

RECURSIVE SamplesBytes(_)
SamplesBytes(s) ==
    IF s = <<>> THEN <<>> ELSE PutUint16(ToUint16(Head(s))) \o SamplesBytes(Tail(s))

WaveBytes(actLen, status, label, samples) ==
    PutUint16(ToUint16(actLen)) \o PutUint16(status) \o PutUint16(label) \o SamplesBytes(samples)

WaveBuffers ==
    {WaveBytes(a, st, 0, s) : a \in {-4, -1, 0, 1, 2, 3, 4}, st \in {0, 1, 12}, s \in SampleSeqs}
        \cup {Slice(WaveBytes(1, 0, 0, <<100>>), 0, n) : n \in {0, 2, 5, 7}}

WaveTypes == {1, DRI_WF_PLETH, DRI_WF_CO2, DRI_WF_AWP, DRI_WF_INVP5, DRI_WF_ECG12, DRI_WF_PLETH_2}

AllWaveTypes ==
    WaveTypes \cup {0, DRI_WF_O2, DRI_WF_N2O, DRI_WF_AA, DRI_WF_INVP6, DRI_WF_INVP7, DRI_WF_INVP8, 255}

ConvertSamples == {-32768, -32001, -32000, -31999, -100, -1, 0, 1, 100, 2500, 32767}

-----------------------------------------------------------------------------
(* Single decode calls                                                     *)

NoRet == [op |-> "none"]

CallGetHighestPriorityAlarm ==
    /\ ret.op = "none"
    /\ \E m \in Msgs :
         ret' = [op |-> "GetHighestPriorityAlarm", msg |-> m, idx |-> GetHighestPriorityAlarm(m)]
    /\ UNCHANGED <<streamVars, hl7Vars>>

CallGetActiveAlarmCount ==
    /\ ret.op = "none"
    /\ \E m \in Msgs :
         ret' = [op |-> "GetActiveAlarmCount", msg |-> m, count |-> GetActiveAlarmCount(m)]
    /\ UNCHANGED <<streamVars, hl7Vars>>

CallHeaderRoundTrip ==
    /\ ret.op = "none"
    /\ \E h \in Headers :
         LET bytes == DatexHeader_MarshalBinary(h)
         IN  ret' = [op |-> "RoundTrip", h |-> h, bytes |-> bytes,
                     out |-> DatexHeader_UnmarshalBinary(bytes)]
    /\ UNCHANGED <<streamVars, hl7Vars>>

CallDatexHeaderUnmarshalBinary ==
    /\ ret.op = "none"
    /\ \E d \in HeaderSlices :
         ret' = [op |-> "DatexHeader.UnmarshalBinary", data |-> d,
                 out |-> DatexHeader_UnmarshalBinary(d)]
    /\ UNCHANGED <<streamVars, hl7Vars>>

CallGetActiveSubrecordCount ==
    /\ ret.op = "none"
    /\ \E h \in DescHeaders :
         ret' = [op |-> "GetActiveSubrecordCount", h |-> h,
                 count |-> DatexHeader_GetActiveSubrecordCount(h)]
    /\ UNCHANGED <<streamVars, hl7Vars>>

CallConvertSampleToPhysicalValue ==
    /\ ret.op = "none"
    /\ \E s \in ConvertSamples, t \in AllWaveTypes :
         ret' = [op |-> "ConvertSampleToPhysicalValue", sample |-> s, subrecordType |-> t,
                 value |-> ConvertSampleToPhysicalValue(s, t),
                 isControlCode |-> IsControlCode(s)]
    /\ UNCHANGED <<streamVars, hl7Vars>>

CallParseWaveformData ==
    /\ ret.op = "none"
    /\ \E d \in WaveBuffers, t \in WaveTypes :
         ret' = [op |-> "ParseWaveformData", data |-> d, subrecordType |-> t,
                 out |-> ParseWaveformData(NewWaveformParser(t), d)]
    /\ UNCHANGED <<streamVars, hl7Vars>>

CallWaveformDataUnmarshalBinary ==
    /\ ret.op = "none"
    /\ \E d \in WaveBuffers :
         ret' = [op |-> "WaveformData.UnmarshalBinary", data |-> d,
                 out |-> WaveformData_UnmarshalBinary(d)]
    /\ UNCHANGED <<streamVars, hl7Vars>>

-----------------------------------------------------------------------------
(* Inputs of the top-level calls: streams of concatenated records          *)

Hdr(rlen, rnbr, mt, sd0) ==
    [ZeroHeader EXCEPT !.RLen = rlen, !.RNbr = rnbr, !.DriLevel = 8, !.RMainType = mt,
                       !.SrDesc = [i \in 0..7 |-> IF i = 0 THEN sd0 ELSE Sentinel]]

AlarmDisplayBytes(color) == Zeros(80) \o <<1, color, 0>> \o Zeros(12)

\* an alarm status message with slot colours [0,2,3,1,3], all 5 displays and
\* the 5 trailing reserved words present
AlarmMsgBytes ==
    <<0, 0, 1, 0, 0, 0, 0, 0>>
        \o AlarmDisplayBytes(0) \o AlarmDisplayBytes(2) \o AlarmDisplayBytes(3)
        \o AlarmDisplayBytes(1) \o AlarmDisplayBytes(3) \o Zeros(10)

\* the body of a well-formed record of main type mt, and its first descriptor
GoodBody(mt) == IF mt = DRI_MT_ALARM THEN AlarmMsgBytes ELSE Zeros(4)

GoodDesc(mt) ==
    IF mt = DRI_MT_ALARM THEN [SrOffset |-> DatexHeader_Size, SrType |-> DRI_AL_STATUS]
    ELSE Sentinel

GoodLen(mt) == DatexHeader_Size + Len(GoodBody(mt))

Shapes == {"good", "tiny", "short", "overlong", "zero", "displ"}

\* record number k of main type mt:
\*   good      complete record, RLen = its length
\*   tiny      RLen = 10, 10 bytes
\*   short     RLen = 34, 34 bytes
\*   overlong  complete record whose RLen is far beyond any buffer
\*   zero      complete record with RLen = 0
\*   displ     complete record whose slot 0 is a displayed-values subrecord
RecordBytes(shape, mt, k) ==
    CASE shape = "good" ->
            DatexHeader_MarshalBinary(Hdr(GoodLen(mt), k, mt, GoodDesc(mt))) \o GoodBody(mt)
      [] shape = "tiny" ->
            Slice(DatexHeader_MarshalBinary(Hdr(10, k, mt, Sentinel)), 0, 10)
      [] shape = "short" ->
            Slice(DatexHeader_MarshalBinary(Hdr(34, k, mt, Sentinel)), 0, 34)
      [] shape = "overlong" ->
            DatexHeader_MarshalBinary(Hdr(30000, k, mt, GoodDesc(mt))) \o GoodBody(mt)
      [] shape = "zero" ->
            DatexHeader_MarshalBinary(Hdr(0, k, mt, GoodDesc(mt))) \o GoodBody(mt)
      [] shape = "displ" ->
            DatexHeader_MarshalBinary(
                Hdr(DatexHeader_Size + 8, k, mt, [SrOffset |-> 0, SrType |-> DRI_PH_DISPL]))
                \o Zeros(8)

RECURSIVE StreamFrom(_, _, _)
StreamFrom(shapes, mt, k) ==
    IF k > Len(shapes) THEN <<>>
    ELSE RecordBytes(shapes[k], mt, k) \o StreamFrom(shapes, mt, k + 1)

StreamBytes(shapes, mt) == StreamFrom(shapes, mt, 1)

ShapeSeqs == UNION {[1..n -> Shapes] : n \in 0..MaxRecords}

MainTypes == {DRI_MT_PHDB, DRI_MT_ALARM}

Streams == {StreamBytes(sh, mt) : sh \in ShapeSeqs, mt \in MainTypes}

\* complete records of main type mt with one reserved header field non-zero
ReservedRecords(mt) ==
    {DatexHeader_MarshalBinary(
         [Hdr(GoodLen(mt), 1, mt, GoodDesc(mt))
            EXCEPT !.NSubnet = r[1], !.Reserved2 = r[2], !.Reserved3 = r[3]])
         \o GoodBody(mt) :
        r \in {<<1, 0, 0>>, <<0, 255, 0>>, <<0, 0, 513>>}}

\* complete trend records: a negative main type, and a main type of 0 with a
\* negative offset in descriptor slot 4 (bytes 28..29 of the header)
MainTypeRecords ==
    {DatexHeader_MarshalBinary(Hdr(DatexHeader_Size + 4, 1, mt, Sentinel)) \o Zeros(4) :
        mt \in {-1, -32768}}
      \cup {DatexHeader_MarshalBinary(
               [Hdr(DatexHeader_Size + 4, 1, DRI_MT_PHDB, Sentinel)
                  EXCEPT !.SrDesc[4] = [SrOffset |-> -1, SrType |-> DRI_EOL_SUBR_LIST]])
               \o Zeros(4)}

\* single records handed to the record decoders and the validators
SingleRecords ==
    {RecordBytes(sh, mt, 1) : sh \in Shapes, mt \in MainTypes}
        \cup {Slice(RecordBytes("good", mt, 1), 0, n) : mt \in MainTypes, n \in {0, 31, 32, 40}}
        \cup {DatexHeader_MarshalBinary(Hdr(rl, 1, mt, Sentinel)) \o Zeros(4) :
                    rl \in {-1, 1, 10, 31, 32, 44, 45}, mt \in MainTypes}
        \cup UNION {ReservedRecords(mt) : mt \in MainTypes}
        \cup MainTypeRecords

\* waveform records: ActLen declared, samples present
WaveShapes == {"two", "empty", "trunc", "neg1", "neg3", "neg4"}

WaveRecordBytes(shape) ==
    CASE shape = "two" -> WaveBytes(2, 0, 0, <<2500, -32000>>)
      [] shape = "empty" -> WaveBytes(0, 1, 0, <<>>)
      [] shape = "trunc" -> WaveBytes(3, 0, 0, <<100>>)
      [] shape = "neg1" -> WaveBytes(-1, 0, 0, <<>>)
      [] shape = "neg3" -> WaveBytes(-3, 0, 0, <<>>)
      [] shape = "neg4" -> WaveBytes(-4, 0, 0, <<>>)

RECURSIVE WaveStreamFrom(_, _)
WaveStreamFrom(shapes, k) ==
    IF k > Len(shapes) THEN <<>>
    ELSE WaveRecordBytes(shapes[k]) \o WaveStreamFrom(shapes, k + 1)

WaveStreams ==
    {WaveStreamFrom(sh, 1) : sh \in UNION {[1..n -> WaveShapes] : n \in 0..MaxRecords}}
        \cup {WaveStreamFrom(<<"two">>, 1) \o <<7, 7>>}

-----------------------------------------------------------------------------
(* Subrecord dispatch on a decoded header                                  *)

\* the body (record.Data) handed to the trend dispatcher
TrendBody == Zeros(12)

\* descriptors for the trend dispatcher: sentinel; displayed values over 12
\* and over 4 bytes; a type without decoder; auxiliary info in bounds, at the
\* body length and at a negative offset
TrendDescs ==
    {Sentinel,
     [SrOffset |-> 0, SrType |-> DRI_PH_DISPL],
     [SrOffset |-> 8, SrType |-> DRI_PH_DISPL],
     [SrOffset |-> 0, SrType |-> 7],
     [SrOffset |-> 0, SrType |-> DRI_PH_AUX_INFO],
     [SrOffset |-> 12, SrType |-> DRI_PH_AUX_INFO],
     [SrOffset |-> -2, SrType |-> DRI_PH_AUX_INFO]}

\* descriptors for the alarm dispatcher, offsets counted from the record
\* start: sentinel; the alarm status message at its place, 10 and 60 bytes into
\* it; a type without decoder; alarm status at the record length and at a
\* negative offset
AlarmDescs ==
    {Sentinel,
     [SrOffset |-> DatexHeader_Size, SrType |-> DRI_AL_STATUS],
     [SrOffset |-> DatexHeader_Size + 10, SrType |-> DRI_AL_STATUS],
     [SrOffset |-> DatexHeader_Size + 60, SrType |-> DRI_AL_STATUS],
     [SrOffset |-> DatexHeader_Size, SrType |-> 7],
     [SrOffset |-> DatexHeader_Size + Len(AlarmMsgBytes), SrType |-> DRI_AL_STATUS],
     [SrOffset |-> -2, SrType |-> DRI_AL_STATUS]}

\* headers whose slots 0, 1, 2 and 7 are drawn from descs, the others sentinels
DispatchHeaders(mt, descs) ==
    {[ZeroHeader EXCEPT !.RLen = 40, !.DriLevel = 8, !.RMainType = mt,
                        !.SrDesc = [i \in 0..7 |-> IF i < 3 THEN sd[i]
                                                   ELSE IF i = 7 THEN sd[3] ELSE Sentinel]] :
        sd \in [0..3 -> descs]}

CallParseSubrecords ==
    /\ ret.op = "none"
    /\ \E h \in DispatchHeaders(DRI_MT_PHDB, TrendDescs) :
         ret' = [op |-> "parseSubrecords", h |-> h, body |-> TrendBody,
                 count |-> DatexHeader_GetActiveSubrecordCount(h),
                 out |-> parseSubrecords([Header |-> h, Data |-> TrendBody], <<>>)]
    /\ UNCHANGED <<streamVars, hl7Vars>>

CallParseAlarmSubrecords ==
    /\ ret.op = "none"
    /\ \E h \in DispatchHeaders(DRI_MT_ALARM, AlarmDescs) :
         LET d == DatexHeader_MarshalBinary(h) \o AlarmMsgBytes
         IN  ret' = [op |-> "parseAlarmSubrecords", h |-> h, body |-> d,
                     count |-> DatexHeader_GetActiveSubrecordCount(h),
                     out |-> parseAlarmSubrecords(h, d, <<>>),
                     ad |-> parseAlarmData(h, d, <<>>)]
    /\ UNCHANGED <<streamVars, hl7Vars>>

\* offsets of slot 0 that lie inside the 12 body bytes of the record
SlotOffsets == {0, 4, 11}

\* one record handed to both dispatchers: the bytes each of them decodes for
\* slot 0, when the slot is valid and its offset passes both bounds checks
CallDispatchSameRecord ==
    /\ ret.op = "none"
    /\ \E o \in SlotOffsets, t \in {DRI_PH_DISPL, DRI_AL_STATUS} :
         LET srDesc == [SrOffset |-> o, SrType |-> t]
             d == DatexHeader_MarshalBinary(
                      Hdr(DatexHeader_Size + Len(TrendBody), 1, DRI_MT_PHDB, srDesc))
                      \o TrendBody
             record == DatexRecord_UnmarshalBinary(d)
         IN  /\ SrDesc_IsValid(srDesc)
             /\ srDesc.SrOffset >= 0
             /\ srDesc.SrOffset < Len(record.Data)
             /\ srDesc.SrOffset < Len(d)
             /\ ret' = [op |-> "dispatchers", data |-> d, srDesc |-> srDesc,
                        trend |-> TrendSubrecordData(record, srDesc),
                        alarm |-> AlarmSubrecordData(d, srDesc)]
    /\ UNCHANGED <<streamVars, hl7Vars>>

-----------------------------------------------------------------------------
(* Alarm status message decode calls                                       *)

\* an alarm status message as the decoder lays it out (8 header bytes, five
\* displays, five reserved words) with silence-info byte si and slot colours
\* [c0, 2, 3, 1, c4]
AlarmMsgWith(si, c0, c4) ==
    <<0, 0, 1, 0, 0, 0, 0, si>>
        \o AlarmDisplayBytes(c0) \o AlarmDisplayBytes(2) \o AlarmDisplayBytes(3)
        \o AlarmDisplayBytes(1) \o AlarmDisplayBytes(c4) \o Zeros(10)

SilenceInfos == {0, 7, 8, 255}

AlarmColors == {0, 3, 4, 255}

\* messages cut or padded to lengths around AlarmStatusMessage.Size()
AlarmMsgBuffers ==
    {Slice(AlarmMsgWith(si, 0, c4) \o <<1, 2, 3, 4, 5, 6, 7>>, 0, n) :
        si \in {0, 8}, c4 \in {3, 4},
        n \in {0, 8, AlarmStatusMessage_Size - 1, AlarmStatusMessage_Size,
               AlarmStatusMessage_Size + 1, AlarmStatusMessage_Size + 2,
               AlarmStatusMessage_Size + 9, AlarmStatusMessage_Size + 10,
               AlarmStatusMessage_Size + 17}}

\* alarmMsg.UnmarshalBinary(data), and the same call on the first Size() bytes
CallAlarmStatusMessageUnmarshalBinary ==
    /\ ret.op = "none"
    /\ \E d \in AlarmMsgBuffers :
         ret' = [op |-> "AlarmStatusMessage.UnmarshalBinary", data |-> d,
                 out |-> AlarmStatusMessage_UnmarshalBinary(d),
                 prefix |-> IF Len(d) >= AlarmStatusMessage_Size
                            THEN AlarmStatusMessage_UnmarshalBinary(
                                     Slice(d, 0, AlarmStatusMessage_Size))
                            ELSE AlarmStatusMessage_UnmarshalBinary(d)]
    /\ UNCHANGED <<streamVars, hl7Vars>>

\* p.parseAlarmStatusData(data) on a parser with an empty error list
CallParseAlarmStatusData ==
    /\ ret.op = "none"
    /\ \E si \in SilenceInfos, c0 \in AlarmColors, c4 \in AlarmColors :
         LET d == AlarmMsgWith(si, c0, c4)
         IN  ret' = [op |-> "parseAlarmStatusData", data |-> d,
                     si |-> si, colors |-> <<c0, 2, 3, 1, c4>>,
                     msg |-> AlarmStatusMessage_UnmarshalBinary(d),
                     out |-> parseAlarmStatusData(<<>>, d)]
    /\ UNCHANGED <<streamVars, hl7Vars>>

-----------------------------------------------------------------------------
(* Decode calls on one PhysiologicalDatabaseRecord value                   *)

MaxDecodes == 2

\* time, 4 payload bytes, marker, reserved and a class word with class bits
\* 8..11 = c, cut to n bytes
PhysBuffers ==
    {Slice(<<1, 2, 3, 4, 9, 8, 7, 6, 5, 0, 16, c>>, 0, n) : c \in {0, 1, 2, 3}, n \in {0, 7, 8, 9, 12}}

\* phRecord.UnmarshalBinary(data): the first call on a new record, or a later
\* call on the same record value
CallPhysiologicalDatabaseRecordUnmarshalBinary ==
    /\ \/ ret.op = "none"
       \/ ret.op = "PhysiologicalDatabaseRecord.UnmarshalBinary" /\ ret.calls < MaxDecodes
    /\ \E d \in PhysBuffers :
         LET p == IF ret.op = "none" THEN ZeroPhysRecord ELSE ret.p
             r == PhysiologicalDatabaseRecord_UnmarshalBinary(p, d)
         IN  ret' = [op |-> "PhysiologicalDatabaseRecord.UnmarshalBinary", data |-> d,
                     calls |-> IF ret.op = "none" THEN 1 ELSE ret.calls + 1,
                     status |-> r.status, err |-> r.err, p |-> r.p]
    /\ UNCHANGED <<streamVars, hl7Vars>>

-----------------------------------------------------------------------------
(* NMT group: bit fields of the Ptc word and of the group status word      *)

\* x >> k on a signed Go integer: arithmetic shift, rounds towards minus infinity
ShiftRight(x, k) == IF x >= 0 THEN x \div (2 ^ k) ELSE -(((-x) + (2 ^ k) - 1) \div (2 ^ k))

\* x & (2^k - 1) on a two's-complement integer
LowBits(x, k) == ((x % (2 ^ k)) + (2 ^ k)) % (2 ^ k)

NMTGroup_GetStimulusMode(n) == LowBits(ShiftRight(n.Header.Status, 2), 2)

NMTGroup_GetPulseWidth(n) == LowBits(ShiftRight(n.Header.Status, 4), 2)

NMTGroup_GetPostTetanicCount(n) == LowBits(n.Ptc, 5)

NMTGroup_GetTOFCount(n) == LowBits(ShiftRight(n.Ptc, 5), 4)

\* the shift without the mask 0x7F
NMTGroup_GetStimulusCurrent_NoMask(n) == ShiftRight(n.Ptc, 9)

NMTGroup_GetStimulusCurrent(n) == LowBits(ShiftRight(n.Ptc, 9), 7)

\* every int16 value of Ptc
PtcWords == -32768..32767

\* status words: every value of the low ten bits, and the extremes of uint16
StatusWords == 0..1023 \cup {32768, 65535}

NMTGroupOf(status, ptc) == [Header |-> [Status |-> status, Label |-> 0], Ptc |-> ptc]

CallNMTPtcGetters ==
    /\ ret.op = "none"
    /\ \E ptc \in PtcWords :
         LET n == NMTGroupOf(0, ptc)
         IN  ret' = [op |-> "NMTGroup.Ptc", n |-> n,
                     ptc |-> NMTGroup_GetPostTetanicCount(n),
                     tof |-> NMTGroup_GetTOFCount(n),
                     current |-> NMTGroup_GetStimulusCurrent(n)]
    /\ UNCHANGED <<streamVars, hl7Vars>>

CallNMTStatusGetters ==
    /\ ret.op = "none"
    /\ \E status \in StatusWords :
         LET n == NMTGroupOf(status, 0)
         IN  ret' = [op |-> "NMTGroup.Status", n |-> n,
                     mode |-> NMTGroup_GetStimulusMode(n),
                     width |-> NMTGroup_GetPulseWidth(n)]
    /\ UNCHANGED <<streamVars, hl7Vars>>

-----------------------------------------------------------------------------
(* HL7 server: state after construction                                    *)

\* client connections that may arrive while the server runs
MaxClients == 2

Clients == 1..MaxClients

\* capacity of messageChan: make(chan *HL7Message, 100)
MessageChanCapacity == 100

\* NewHL7Server: empty registry, empty queue, open stop channel, no listener
NewHL7Server ==
    /\ listener = "nil"
    /\ clients = {}
    /\ messageChan = 0
    /\ stopChan = "open"
    /\ conn = [c \in Clients |-> "none"]
    /\ handler = [c \in Clients |-> "none"]
    /\ startPc = "init"
    /\ stopPc = "idle"
    /\ consumer = "none"

Init ==
    /\ ret = NoRet
    /\ pc = "idle"
    /\ parser = "none"
    /\ errors = <<>>
    /\ data = <<>>
    /\ wtype = 0
    /\ offset = 0
    /\ results = <<>>
    /\ attempts = <<>>
    /\ returned = [call |-> "none", status |-> "none"]
    /\ NewHL7Server

NextPure ==
    \/ CallGetHighestPriorityAlarm
    \/ CallGetActiveAlarmCount
    \/ CallHeaderRoundTrip
    \/ CallDatexHeaderUnmarshalBinary
    \/ CallGetActiveSubrecordCount
    \/ CallConvertSampleToPhysicalValue
    \/ CallParseWaveformData
    \/ CallWaveformDataUnmarshalBinary
    \/ CallParseSubrecords
    \/ CallParseAlarmSubrecords
    \/ CallPhysiologicalDatabaseRecordUnmarshalBinary
    \/ CallAlarmStatusMessageUnmarshalBinary
    \/ CallParseAlarmStatusData
    \/ CallDispatchSameRecord
    \/ CallNMTPtcGetters
    \/ CallNMTStatusGetters

SpecPure == Init /\ [][NextPure]_vars

-----------------------------------------------------------------------------
(* Top-level calls on a parser (Spec)                                      *)

\* a call starts on a new parser, or on the live one as a later call on it
Callable(kind) == pc = "idle" /\ parser \in {"none", kind}

Begin(call, kind, d, errs) ==
    /\ pc' = call
    /\ parser' = kind
    /\ errors' = errs
    /\ data' = d
    /\ offset' = 0
    /\ results' = <<>>
    /\ attempts' = <<>>
    /\ returned' = [call |-> call, status |-> "running"]
    /\ UNCHANGED ret

\* the call returns (results, err) to its caller
Return(err, res) ==
    /\ pc' = "done"
    /\ returned' = [call |-> pc, status |-> IF err = "nil" THEN "ok" ELSE "err",
                    err |-> err, results |-> res]

\* the call ends in a run-time panic: the caller gets no result
Panic ==
    /\ pc' = "done"
    /\ returned' = [call |-> pc, status |-> "panic", err |-> "panic", results |-> <<>>]

StartParseMultipleTrends ==
    /\ UNCHANGED hl7Vars
    /\ Callable("trend")
    /\ \E d \in Streams :
         Begin("ParseMultipleTrends", "trend", d, errors) /\ wtype' = wtype

\* a length test that lets a record length of 0 through
RecordLenStopsScan_AllowZero(recordLen, off, d) == recordLen < 0 \/ off + recordLen > Len(d)

\* recordLen <= 0 || offset+recordLen > len(data): the scan stops here
RecordLenStopsScan(recordLen, off, d) == recordLen <= 0 \/ off + recordLen > Len(d)

\* one iteration of the loop of ParseMultipleTrends
StepParseMultipleTrends ==
    /\ UNCHANGED hl7Vars
    /\ pc = "ParseMultipleTrends"
    /\ UNCHANGED <<ret, parser, data, wtype>>
    /\ IF ~(offset < Len(data)) \/ offset + 2 > Len(data)
       THEN Return("nil", results) /\ UNCHANGED <<errors, offset, results, attempts>>
       ELSE LET recordLen == Uint16(data, offset)
            IN  IF RecordLenStopsScan(recordLen, offset, data)
                THEN Return("nil", results) /\ UNCHANGED <<errors, offset, results, attempts>>
                ELSE \E phOk \in BOOLEAN :
                     LET r == ParseTrendData(Slice(data, offset, offset + recordLen), phOk)
                     IN  /\ attempts' = Append(attempts, offset)
                         /\ IF r.status = "panic"
                            THEN Panic /\ errors' = r.errors /\ UNCHANGED <<offset, results>>
                            ELSE /\ errors' = IF r.status = "err"
                                              THEN addError(r.errors, "Failed to parse trend")
                                              ELSE r.errors
                                 /\ results' = IF r.status = "err" THEN results
                                               ELSE Append(results, r.json[1])
                                 /\ offset' = offset + recordLen
                                 /\ UNCHANGED <<pc, returned>>

StartParseMultipleAlarms ==
    /\ UNCHANGED hl7Vars
    /\ Callable("alarm")
    /\ \E d \in Streams :
         Begin("ParseMultipleAlarms", "alarm", d, errors) /\ wtype' = wtype

\* one iteration of the loop of ParseMultipleAlarms
StepParseMultipleAlarms ==
    /\ UNCHANGED hl7Vars
    /\ pc = "ParseMultipleAlarms"
    /\ UNCHANGED <<ret, parser, data, wtype>>
    /\ IF ~(offset < Len(data)) \/ Len(SliceFrom(data, offset)) < 32
       THEN Return("nil", results) /\ UNCHANGED <<errors, offset, results, attempts>>
       ELSE LET hr == DatexHeader_UnmarshalBinary(Slice(data, offset, offset + 32))
                recordLength == hr.h.RLen
            IN  IF hr.err # "nil"
                THEN /\ errors' = addError(errors, "failed to parse header")
                     /\ Return("nil", results)
                     /\ UNCHANGED <<offset, results, attempts>>
                ELSE IF recordLength <= 0 \/ offset + recordLength > Len(data)
                THEN /\ errors' = addError(errors, "invalid record length")
                     /\ Return("nil", results)
                     /\ UNCHANGED <<offset, results, attempts>>
                ELSE LET r == ParseAlarmData(errors, Slice(data, offset, offset + recordLength))
                     IN  /\ attempts' = Append(attempts, offset)
                         /\ IF r.status = "panic"
                            THEN Panic /\ errors' = r.errors /\ UNCHANGED <<offset, results>>
                            ELSE /\ errors' = IF r.status = "err"
                                              THEN addError(r.errors, "failed to parse alarm record")
                                              ELSE r.errors
                                 /\ results' = IF r.status = "err" THEN results
                                               ELSE Append(results, r.json[1])
                                 /\ offset' = offset + recordLength
                                 /\ UNCHANGED <<pc, returned>>

StartParseMultipleWaveforms ==
    /\ UNCHANGED hl7Vars
    /\ Callable("wave")
    /\ \E d \in WaveStreams, t \in {DRI_WF_CO2, DRI_WF_ECG12} :
         Begin("ParseMultipleWaveforms", "wave", d, <<>>) /\ wtype' = t

\* one iteration of the loop of ParseMultipleWaveforms
StepParseMultipleWaveforms ==
    /\ UNCHANGED hl7Vars
    /\ pc = "ParseMultipleWaveforms"
    /\ UNCHANGED <<ret, parser, data, wtype, errors>>
    /\ IF ~(offset < Len(data)) \/ offset + 6 > Len(data)
       THEN Return("nil", results) /\ UNCHANGED <<offset, results, attempts>>
       ELSE LET header == WaveformHeader_UnmarshalBinary(Slice(data, offset, offset + 6)).h
                waveformLength == 6 + header.ActLen * 2
            IN  IF offset + waveformLength > Len(data)
                THEN Return("incomplete waveform data", <<>>)
                        /\ UNCHANGED <<offset, results, attempts>>
                ELSE IF waveformLength < 0
                \* data[offset : offset+waveformLength] with high < low
                THEN Panic /\ UNCHANGED <<offset, results, attempts>>
                ELSE LET r == ParseWaveformData(NewWaveformParser(wtype),
                                                Slice(data, offset, offset + waveformLength))
                     IN  /\ attempts' = Append(attempts, offset)
                         /\ IF r.status = "panic"
                            THEN Panic /\ UNCHANGED <<offset, results>>
                            ELSE IF r.status = "err"
                            THEN Return("failed to parse waveform", <<>>)
                                    /\ UNCHANGED <<offset, results>>
                            ELSE /\ results' = Append(results, r.json[1])
                                 /\ offset' = offset + waveformLength
                                 /\ UNCHANGED <<pc, returned>>

\* a single ParseAlarmData call
CallParseAlarmData ==
    /\ UNCHANGED hl7Vars
    /\ Callable("alarm")
    /\ \E d \in SingleRecords :
         LET r == ParseAlarmData(errors, d)
         IN  /\ pc' = "done"
             /\ parser' = "alarm"
             /\ data' = d
             /\ errors' = r.errors
             /\ offset' = 0
             /\ results' = <<>>
             /\ attempts' = <<0>>
             /\ returned' = [call |-> "ParseAlarmData", status |-> r.status,
                             err |-> r.err, results |-> r.json]
             /\ UNCHANGED <<ret, wtype>>

\* a single ParseTrendData call; it starts by emptying p.errors
CallParseTrendData ==
    /\ UNCHANGED hl7Vars
    /\ Callable("trend")
    /\ \E d \in SingleRecords, phOk \in BOOLEAN :
         LET r == ParseTrendData(d, phOk)
         IN  /\ pc' = "done"
             /\ parser' = "trend"
             /\ data' = d
             /\ errors' = r.errors
             /\ offset' = 0
             /\ results' = <<>>
             /\ attempts' = <<0>>
             /\ returned' = [call |-> "ParseTrendData", status |-> r.status,
                             err |-> r.err, results |-> r.json]
             /\ UNCHANGED <<ret, wtype>>

\* a validator is a package function: no parser is involved
Validated(call, d, err) ==
    /\ pc' = "done"
    /\ data' = d
    /\ attempts' = <<>>
    /\ returned' = [call |-> call, status |-> IF err = "nil" THEN "ok" ELSE "err",
                    err |-> err, results |-> <<>>]
    /\ UNCHANGED <<ret, parser, errors, wtype, offset, results>>

CallValidateTrendData ==
    /\ UNCHANGED hl7Vars
    /\ pc = "idle" /\ parser = "none"
    /\ \E d \in SingleRecords : Validated("ValidateTrendData", d, ValidateTrendData(d))

CallValidateAlarmData ==
    /\ UNCHANGED hl7Vars
    /\ pc = "idle" /\ parser = "none"
    /\ \E d \in SingleRecords : Validated("ValidateAlarmData", d, ValidateAlarmData(d))

\* the caller drops the results and keeps the parser for a later call
KeepParser ==
    /\ UNCHANGED hl7Vars
    /\ pc = "done"
    /\ returned.status # "panic"
    /\ errors # <<>>
    /\ Len(errors) <= MaxHistory
    /\ pc' = "idle"
    /\ data' = <<>>
    /\ offset' = 0
    /\ results' = <<>>
    /\ attempts' = <<>>
    /\ returned' = [call |-> "none", status |-> "none"]
    /\ ret' = NoRet
    /\ UNCHANGED <<parser, errors, wtype>>

Next ==
    \/ KeepParser
    \/ StartParseMultipleTrends
    \/ StepParseMultipleTrends
    \/ StartParseMultipleAlarms
    \/ StepParseMultipleAlarms
    \/ StartParseMultipleWaveforms
    \/ StepParseMultipleWaveforms
    \/ CallParseAlarmData
    \/ CallParseTrendData
    \/ CallValidateTrendData
    \/ CallValidateAlarmData

Spec == Init /\ [][Next]_vars

-----------------------------------------------------------------------------
(* HL7 server goroutines (SpecHL7)                                         *)

\* Start: net.Listen succeeded, s.listener is set, processMessages is spawned
Start_Listen ==
    /\ startPc = "init"
    /\ listener' = "open"
    /\ consumer' = "running"
    /\ startPc' = "accept"
    /\ UNCHANGED <<decodeVars, clients, messageChan, stopChan, conn, handler, stopPc>>

\* Start: Accept returns a connection of an allowed client; go s.handleClient(conn)
Start_Accept(c) ==
    /\ startPc = "accept"
    /\ listener = "open"
    /\ conn[c] = "none"
    /\ conn' = [conn EXCEPT ![c] = "open"]
    /\ handler' = [handler EXCEPT ![c] = "register"]
    /\ UNCHANGED <<decodeVars, listener, clients, messageChan, stopChan, startPc, stopPc,
                   consumer>>

\* Start: Accept returns a connection that isClientAllowed refuses; it is closed
Start_Reject(c) ==
    /\ startPc = "accept"
    /\ listener = "open"
    /\ conn[c] = "none"
    /\ conn' = [conn EXCEPT ![c] = "closed"]
    /\ UNCHANGED <<decodeVars, listener, clients, messageChan, stopChan, handler, startPc,
                   stopPc, consumer>>

\* Start: Accept fails on the closed listener and stopChan is closed: return
Start_Return ==
    /\ startPc = "accept"
    /\ listener = "closed"
    /\ stopChan = "closed"
    /\ startPc' = "returned"
    /\ UNCHANGED <<decodeVars, listener, clients, messageChan, stopChan, conn, handler,
                   stopPc, consumer>>

\* Stop, called once on a started server: close(s.stopChan)
Stop_Signal ==
    /\ stopPc = "idle"
    /\ listener = "open"
    /\ stopChan' = "closed"
    /\ stopPc' = "closeListener"
    /\ UNCHANGED <<decodeVars, listener, clients, messageChan, conn, handler, startPc,
                   consumer>>

\* Stop: s.listener.Close()
Stop_CloseListener ==
    /\ stopPc = "closeListener"
    /\ listener' = "closed"
    /\ stopPc' = "closeClients"
    /\ UNCHANGED <<decodeVars, clients, messageChan, stopChan, conn, handler, startPc,
                   consumer>>

\* Stop: under the mutex, close the connection of every registered client and
\* replace the registry by an empty map; then return
Stop_CloseClients ==
    /\ stopPc = "closeClients"
    /\ conn' = [c \in Clients |-> IF c \in clients THEN "closed" ELSE conn[c]]
    /\ clients' = {}
    /\ stopPc' = "returned"
    /\ UNCHANGED <<decodeVars, listener, messageChan, stopChan, handler, startPc, consumer>>

\* handleClient: under the mutex, s.clients[clientID] = client
handleClient_Register(c) ==
    /\ handler[c] = "register"
    /\ clients' = clients \cup {c}
    /\ handler' = [handler EXCEPT ![c] = "scan"]
    /\ UNCHANGED <<decodeVars, listener, messageChan, stopChan, conn, startPc, stopPc,
                   consumer>>

\* handleClient: scanner.Scan() delivers a line that parses as an HL7 message
\* (an empty or unparsable line leaves the handler where it is)
handleClient_Scan(c) ==
    /\ handler[c] = "scan"
    /\ conn[c] = "open"
    /\ handler' = [handler EXCEPT ![c] = "send"]
    /\ UNCHANGED <<decodeVars, listener, clients, messageChan, stopChan, conn, startPc,
                   stopPc, consumer>>

\* handleClient: scanner.Scan() returns false: the connection was closed by
\* Stop, the peer hung up, or the read deadline passed
handleClient_ScanEnds(c) ==
    /\ handler[c] = "scan"
    /\ handler' = [handler EXCEPT ![c] = "remove"]
    /\ UNCHANGED <<decodeVars, listener, clients, messageChan, stopChan, conn, startPc,
                   stopPc, consumer>>

\* handleClient: s.messageChan <- hl7Message, possible while the buffer has room
handleClient_Send(c) ==
    /\ handler[c] = "send"
    /\ messageChan < MessageChanCapacity
    /\ messageChan' = messageChan + 1
    /\ handler' = [handler EXCEPT ![c] = "scan"]
    /\ UNCHANGED <<decodeVars, listener, clients, stopChan, conn, startPc, stopPc, consumer>>

\* handleClient: under the mutex, delete(s.clients, clientID)
handleClient_Remove(c) ==
    /\ handler[c] = "remove"
    /\ clients' = clients \ {c}
    /\ handler' = [handler EXCEPT ![c] = "close"]
    /\ UNCHANGED <<decodeVars, listener, messageChan, stopChan, conn, startPc, stopPc,
                   consumer>>

\* handleClient: conn.Close() and return
handleClient_Close(c) ==
    /\ handler[c] = "close"
    /\ conn' = [conn EXCEPT ![c] = "closed"]
    /\ handler' = [handler EXCEPT ![c] = "exited"]
    /\ UNCHANGED <<decodeVars, listener, clients, messageChan, stopChan, startPc, stopPc,
                   consumer>>

\* processMessages: case message := <-s.messageChan; handleMessage(message)
processMessages_Receive ==
    /\ consumer = "running"
    /\ messageChan > 0
    /\ messageChan' = messageChan - 1
    /\ UNCHANGED <<decodeVars, listener, clients, stopChan, conn, handler, startPc, stopPc,
                   consumer>>

\* processMessages: case <-s.stopChan; return.  When both cases are ready the
\* select takes either one
processMessages_Return ==
    /\ consumer = "running"
    /\ stopChan = "closed"
    /\ consumer' = "returned"
    /\ UNCHANGED <<decodeVars, listener, clients, messageChan, stopChan, conn, handler,
                   startPc, stopPc>>

Start == Start_Listen \/ Start_Return \/ \E c \in Clients : Start_Accept(c) \/ Start_Reject(c)

Stop == Stop_Signal \/ Stop_CloseListener \/ Stop_CloseClients

handleClient(c) ==
    \/ handleClient_Register(c)
    \/ handleClient_Scan(c)
    \/ handleClient_ScanEnds(c)
    \/ handleClient_Send(c)
    \/ handleClient_Remove(c)
    \/ handleClient_Close(c)

processMessages == processMessages_Receive \/ processMessages_Return

NextHL7 ==
    \/ Start
    \/ Stop
    \/ \E c \in Clients : handleClient(c)
    \/ processMessages

SpecHL7 == Init /\ [][NextHL7]_vars

\* The Go scheduler runs every goroutine that can take a step: Stop, once
\* called, goes on to its end, processMessages and the handlers take the steps
\* that are possible.  A client does not keep its connection busy forever:
\* the peer hangs up, the read deadline passes or Stop closes the connection,
\* so a handler that keeps coming back to Scan sees it fail at some point.
FairHL7 ==
    /\ WF_vars(Stop_CloseListener)
    /\ WF_vars(Stop_CloseClients)
    /\ WF_vars(Start_Return)
    /\ WF_vars(processMessages)
    /\ \A c \in Clients :
          /\ WF_vars(handleClient_Register(c))
          /\ WF_vars(handleClient_Send(c))
          /\ WF_vars(handleClient_Remove(c))
          /\ WF_vars(handleClient_Close(c))
          /\ SF_vars(handleClient_ScanEnds(c))

FairSpecHL7 == SpecHL7 /\ FairHL7

-----------------------------------------------------------------------------
(* Properties of the single decode calls (checked under SpecPure)          *)

SlotColors(msg) == {msg.AlDisp[i].Color : i \in 0..4}

\* the lowest-index slot carrying the largest colour present
FirstMostSevere(msg) ==
    CHOOSE i \in 0..4 :
        /\ \A j \in 0..4 : msg.AlDisp[j].Color <= msg.AlDisp[i].Color
        /\ \A j \in 0..(i - 1) : msg.AlDisp[j].Color < msg.AlDisp[i].Color

\* C1: for slot colours [0,2,3,1,3] GetHighestPriorityAlarm returns slot 2, and
\* in general (colours 0..3, some slot active) it returns the lowest-index slot
\* carrying the most severe colour present (3 over 2 over 1).
C1_HighestIsFirstMostSevere ==
    ret.op = "GetHighestPriorityAlarm" =>
        /\ (ret.msg = MsgOf(<<0, 2, 3, 1, 3>>) => ret.idx = 2)
        /\ (SlotColors(ret.msg) \subseteq 0..3 /\ SlotColors(ret.msg) # {0}
                => ret.idx = FirstMostSevere(ret.msg))

DeclaredActLen(d) == ToInt16(Uint16(d, 0))

ShortWaveBuffer(d) == Len(d) >= 6 /\ Len(d) < 6 + 2 * DeclaredActLen(d)

LengthErrors == {"ErrInvalidDataLength", "data length mismatch", "data too short"}

\* C4: a buffer whose 6-byte sub-header declares ActLen = N but which is shorter
\* than 6+2N makes ParseWaveformData and WaveformData.UnmarshalBinary return a
\* length error and no sample array.
C4_ShortWaveformIsLengthError ==
    /\ (ret.op = "ParseWaveformData" /\ ShortWaveBuffer(ret.data)
            => ret.out.status = "err" /\ ret.out.err \in LengthErrors /\ ret.out.json = <<>>)
    /\ (ret.op = "WaveformData.UnmarshalBinary" /\ ShortWaveBuffer(ret.data)
            => ret.out.status = "err" /\ ret.out.err \in LengthErrors /\ ret.out.Samples = <<>>)

C4_Witness ==
    /\ ret.op = "ParseWaveformData"
    /\ ret.data = WaveBytes(3, 0, 0, <<2500, 100>>)
    /\ ShortWaveBuffer(ret.data)
    /\ ret.out.status = "err"

Div100Types ==
    {DRI_WF_INVP5, DRI_WF_INVP6, DRI_WF_INVP7, DRI_WF_INVP8, DRI_WF_PLETH, DRI_WF_PLETH_2,
     DRI_WF_CO2, DRI_WF_O2, DRI_WF_N2O, DRI_WF_AA}

ClaimedDivisor(t) == IF t \in Div100Types THEN 100 ELSE 1

\* the float64 v equals the rational n / d
ValueIs(v, n, d) == ~v.nan /\ v.num * d = n * v.den

C6_HeaderRoundTrip ==
    ret.op = "RoundTrip" => ret.out.err = "nil" /\ ret.out.h = ret.h

C6_Witness ==
    /\ ret.op = "RoundTrip"
    /\ ret.h.RMainType < 0 /\ ret.h.RLen < 0 /\ ret.h.SrDesc[7].SrOffset < 0
    /\ Len(ret.bytes) = 40
    /\ ret.out.h = ret.h

\* C7: GetActiveSubrecordCount equals the number of descriptor slots whose
\* SrType is not 0xFF, for every combination of the 8 slots.
C7_ActiveCountIsNonSentinelSlots ==
    ret.op = "GetActiveSubrecordCount" =>
        ret.count = Cardinality({i \in 0..7 : ret.h.SrDesc[i].SrType # 255})

C7_Witness ==
    /\ ret.op = "GetActiveSubrecordCount"
    /\ \A i \in 0..7 : ret.h.SrDesc[i].SrType # 255
    /\ \E i \in 0..7 : ret.h.SrDesc[i].SrType = 0
    /\ ret.count = 8

\* C8: DatexHeader.UnmarshalBinary succeeds on every slice of at least 32 bytes
\* and returns ErrInvalidDataLength only for slices shorter than 32 bytes.
C8_HeaderDecodesFrom32Bytes ==
    ret.op = "DatexHeader.UnmarshalBinary" =>
        (ret.out.err = "ErrInvalidDataLength" <=> Len(ret.data) < 32)

Dispatchers == {"parseSubrecords", "parseAlarmSubrecords"}

\* C12: for every header both subrecord dispatchers report exactly eight
\* entries, entry i describing slot i, wherever sentinels occur; a slot with
\* SrType = 0xFF is reported IsEndOfList and not IsValid, with no decoded body.
C12_EightEntriesInSlotOrder ==
    ret.op \in Dispatchers =>
        /\ ret.out.status = "ok"
        /\ Len(ret.out.json) = 8
        /\ \A i \in 0..7 :
             LET e == ret.out.json[i + 1]
             IN  /\ e.Index = i
                 /\ e.Offset = ret.h.SrDesc[i].SrOffset
                 /\ e.Type = ret.h.SrDesc[i].SrType
                 /\ (e.Type = 255 => e.IsEndOfList /\ ~e.IsValid /\ e.Data = <<>>)

\* slot i lies at or after the first slot of h whose SrType is 0xFF
AfterSentinel(h, i) == \E j \in 0..i : h.SrDesc[j].SrType = 255

StatusSlots(h) == {i \in 0..7 : h.SrDesc[i].SrType = DRI_AL_STATUS}

OutOfBoundsSlots ==
    {i \in 0..7 : /\ ret.h.SrDesc[i].SrType # 255
                  /\ \/ ret.h.SrDesc[i].SrOffset < 0
                     \/ ret.h.SrDesc[i].SrOffset >= Len(ret.body)}

\* C14: for every active slot whose SrOffset is negative or at or beyond the
\* body length the dispatcher skips the body decode, appends a diagnostic
\* (so at least one per such slot) and still completes with all eight entries.
C14_OutOfBoundsOffsetIsSkippedWithDiagnostic ==
    ret.op \in Dispatchers /\ OutOfBoundsSlots # {} =>
        /\ ret.out.status = "ok"
        /\ Len(ret.out.json) = 8
        /\ \A i \in OutOfBoundsSlots : ret.out.json[i + 1].Data = <<>>
        /\ Len(ret.out.errors) >= Cardinality(OutOfBoundsSlots)

\* the types each dispatcher has a decoder for
RegisteredTypes(op) ==
    IF op = "parseSubrecords"
    THEN {DRI_PH_DISPL, DRI_PH_10S_TREND, DRI_PH_60S_TREND, DRI_PH_AUX_INFO}
    ELSE {DRI_AL_STATUS}

\* the active, in-bounds slots of the call in ret whose type has no decoder
UnknownTypeSlots ==
    {i \in 0..7 : /\ ret.h.SrDesc[i].SrType # 255
                  /\ ret.h.SrDesc[i].SrType \notin RegisteredTypes(ret.op)
                  /\ i \notin OutOfBoundsSlots}

UnknownTypeDiags == {"unknown alarm subrecord type", "unknown subrecord type"}

\* C15: in every dispatch that returns, each active in-bounds slot whose type
\* has no registered decoder gets a raw-bytes fallback payload and a
\* diagnostic, and all eight entries are still reported; trend and alarm alike.
C15_UnknownTypeIsDiagnosedWithRawFallback ==
    ret.op \in Dispatchers /\ UnknownTypeSlots # {} /\ ret.out.status # "panic" =>
        /\ Len(ret.out.json) = 8
        /\ \A i \in UnknownTypeSlots :
             /\ ret.out.json[i + 1].Data # <<>>
             /\ ret.out.json[i + 1].Data[1].kind = "raw_data"
        /\ \E k \in 1..Len(ret.out.errors) : ret.out.errors[k].msg \in UnknownTypeDiags

\* C16: PhysiologicalDatabaseRecord.UnmarshalBinary on a buffer of at least 8
\* bytes returns normally, with Time from bytes 0..3, the class payload from
\* the bytes between, and Marker, Reserved and ClDriLvlSubt from the last
\* 1+1+2 bytes; it reads no index at or beyond the buffer length.
C16_PhysRecordDecodesWithinBuffer ==
    ret.op = "PhysiologicalDatabaseRecord.UnmarshalBinary" /\ Len(ret.data) >= 8 =>
        LET n == Len(ret.data)
        IN  /\ ret.status = "ok"
            /\ ret.p.Time = Uint32(ret.data, 0)
            /\ ret.p.PhysData.Basic = <<[Data |-> Slice(ret.data, 4, n - 4)]>>
            /\ ret.p.Marker = At(ret.data, n - 4)
            /\ ret.p.Reserved = At(ret.data, n - 3)
            /\ ret.p.ClDriLvlSubt = Uint16(ret.data, n - 2)

\* the variants of PhysData that are populated (non-nil) in record p
Populated(p) == {v \in {"Basic", "Ext1", "Ext2", "Ext3"} : p.PhysData[v] # <<>>}

C18_AlarmMessageFitsDeclaredSize ==
    ret.op = "AlarmStatusMessage.UnmarshalBinary"
        /\ Len(ret.data) >= 2 + 1 + 2 + 2 + 1 + 5 * 93 + 5 * 2 =>
        /\ ret.out.status = "ok"
        /\ ret.prefix = ret.out

\* C19: when the silence-info byte is outside 0..7 or a slot colour is >= 4 the
\* alarm decode still completes, keeps the raw value in the decoded structure
\* and appends a diagnostic for it.
C19_OutOfRangeEnumIsDiagnosedAndKept ==
    ret.op = "parseAlarmStatusData"
        /\ (ret.si \notin 0..7 \/ \E i \in 1..5 : ret.colors[i] >= 4) =>
        /\ ret.msg.status = "ok"
        /\ ret.msg.msg.SilenceInfo = ret.si
        /\ \A i \in 0..4 : ret.msg.msg.AlDisp[i].Color = ret.colors[i + 1]
        /\ ret.out.status = "ok"
        /\ ret.out.json # <<>>
        /\ ret.out.json[1].silence_info = ret.si
        /\ ret.out.errors # <<>>

-----------------------------------------------------------------------------
(* Properties of the top-level calls (checked under Spec)                  *)

Finished(call) == pc = "done" /\ returned.call = call

HasDiag(msgs) == \E i \in 1..Len(errors) : errors[i].msg \in msgs

\* three records: record 1 well-formed, record 2 declaring more than remains
SecondOverlong(mt) == StreamBytes(<<"good", "overlong", "good">>, mt)

\* C2: on a three-record buffer whose record 1 is well-formed and whose record 2
\* declares a length beyond the remaining bytes, ParseMultipleTrends and
\* ParseMultipleAlarms return exactly record 1, record a diagnostic for the bad
\* length, and never hand record 3 to the record decoder.
C2_OverlongSecondRecord ==
    \A mt \in MainTypes :
        (\/ (Finished("ParseMultipleTrends") /\ mt = DRI_MT_PHDB)
         \/ (Finished("ParseMultipleAlarms") /\ mt = DRI_MT_ALARM))
        /\ data = SecondOverlong(mt)
        => /\ returned.status = "ok"
           /\ Len(returned.results) = 1
           /\ returned.results[1].RecordNumber = 1
           /\ HasDiag({"invalid record length"})
           /\ attempts = <<0>>

\* C3: ParseAlarmData on a record of at least header length whose main type is
\* not 4 fails with the type-mismatch error and a nil result.
C3_NonAlarmIsTypeMismatch ==
    Finished("ParseAlarmData") /\ Len(data) >= DatexHeader_Size
        /\ DecodeHeaderFields(data).RMainType # DRI_MT_ALARM
        => /\ returned.status = "err"
           /\ returned.err = "invalid record type for alarm data"
           /\ returned.results = <<>>

\* a complete alarm record at the start of d: main type 4, 0 < RLen <= len(d),
\* and the alarm-status subrecord of slot 0 inside the record
CompleteAlarmRecord(d) ==
    /\ Len(d) >= DatexHeader_Size
    /\ LET h == DecodeHeaderFields(d)
       IN  /\ h.RMainType = DRI_MT_ALARM
           /\ 0 < h.RLen /\ h.RLen <= Len(d)
           /\ h.SrDesc[0].SrType = DRI_AL_STATUS
           /\ h.SrDesc[0].SrOffset >= DatexHeader_Size
           /\ h.SrDesc[0].SrOffset + Len(AlarmMsgBytes) <= h.RLen

\* C9: for a buffer holding a complete alarm record ParseAlarmData returns a
\* non-nil AlarmJSON with a nil error, and ParseMultipleAlarms over a stream of
\* such records returns one AlarmJSON per record.
C9_CompleteAlarmRecordDecodes ==
    /\ (Finished("ParseAlarmData") /\ CompleteAlarmRecord(data)
            => returned.status = "ok" /\ returned.results # <<>>)
    /\ \A n \in 1..MaxRecords :
         (Finished("ParseMultipleAlarms")
            /\ data = StreamBytes([k \in 1..n |-> "good"], DRI_MT_ALARM)
            => returned.status = "ok" /\ Len(returned.results) = n)

Splitters == {"ParseMultipleTrends", "ParseMultipleAlarms", "ParseMultipleWaveforms"}

\* the scan cannot go on at offset: nothing left, or the length prefix there
\* is not usable (non-positive, or beyond the remaining bytes)
CorruptPrefixOrEnd ==
    CASE returned.call = "ParseMultipleTrends" ->
            \/ offset + 2 > Len(data)
            \/ Uint16(data, offset) <= 0
            \/ offset + Uint16(data, offset) > Len(data)
      [] returned.call = "ParseMultipleAlarms" ->
            \/ Len(data) - offset < 32
            \/ ToInt16(Uint16(data, offset)) <= 0
            \/ offset + ToInt16(Uint16(data, offset)) > Len(data)
      [] returned.call = "ParseMultipleWaveforms" ->
            \/ offset + 6 > Len(data)
            \/ 6 + 2 * ToInt16(Uint16(data, offset)) <= 0
            \/ offset + 6 + 2 * ToInt16(Uint16(data, offset)) > Len(data)

\* C10: in every multi-record splitter a record that fails to decode neither
\* discards the records decoded before it nor stops the decoding of the records
\* after it; only a corrupt length prefix stops the scan, and the results
\* decoded up to that point are returned.
C10_FailuresAreIsolated ==
    pc = "done" /\ returned.call \in Splitters
        => /\ returned.results = results
           /\ CorruptPrefixOrEnd

\* the length word of the record starting at offset off, as a signed 16-bit value
RLenAt(d, off) == ToInt16(Uint16(d, off))

Validators == {"ValidateTrendData", "ValidateAlarmData"}

\* C11: a record whose declared RLen is below 32 or above the length of its
\* buffer is rejected by ValidateTrendData and ValidateAlarmData, and no stream
\* splitter hands a record with RLen below 32 (1..31, or negative as a signed
\* 16-bit value) to the record decoder.
C11_BadRLenIsRejected ==
    /\ (pc = "done" /\ returned.call \in Validators /\ Len(data) >= 2
            /\ (RLenAt(data, 0) < 32 \/ RLenAt(data, 0) > Len(data))
            => returned.status = "err")
    /\ (returned.call \in {"ParseMultipleTrends", "ParseMultipleAlarms"}
            => \A i \in 1..Len(attempts) : RLenAt(data, attempts[i]) >= 32)

\* C20: when the header of an otherwise well-formed record has a non-zero
\* reserved field (NSubnet, Reserved2 or Reserved3), ParseTrendData and
\* ParseAlarmData still return the decoded record and append the diagnostic of
\* that field to the error list.
C20_ReservedFieldIsDiagnosedNotFatal ==
    \A mt \in MainTypes :
        pc = "done" /\ data \in ReservedRecords(mt)
            /\ \/ returned.call = "ParseTrendData"
               \/ returned.call = "ParseAlarmData" /\ mt = DRI_MT_ALARM
            => /\ returned.status = "ok"
               /\ returned.results # <<>>
               /\ HasDiag({DatexHeader_ValidateReservedFields(DecodeHeaderFields(data))})

\* the sequence a is an initial part of the sequence b
IsPrefix(a, b) == Len(a) <= Len(b) /\ SubSeq(b, 1, Len(a)) = a

\* C21: within one ParseMultipleTrends or ParseMultipleAlarms call the
\* diagnostic list only grows: every entry recorded so far keeps its position
\* while the following records are decoded and until the call returns.
DiagnosticsKept ==
    pc \in {"ParseMultipleTrends", "ParseMultipleAlarms"} => IsPrefix(errors, errors')

C21_DiagnosticsAreAppendOnly == [][DiagnosticsKept]_vars


\* C22: ParseAlarmData is a function of its input buffer alone: whatever the
\* parser decoded before, the call returns the record, the error and the
\* diagnostics that a new parser returns for the same buffer.
C22_DecodeDependsOnBufferOnly ==
    Finished("ParseAlarmData") =>
        LET fresh == ParseAlarmData(<<>>, data)
        IN  /\ returned.status = fresh.status
            /\ returned.err = fresh.err
            /\ returned.results = fresh.json
            /\ errors = fresh.errors


\* the colours of the slots that IsActiveAlarm reports as active
ActiveColors(msg) ==
    {msg.AlDisp[i].Color : i \in {j \in 0..4 : AlarmDisplay_IsActiveAlarm(msg.AlDisp[j])}}

\* C24: for every 16-bit Ptc word, negative int16 values included, the three
\* getters return bits 0-4, 5-8 and 9-15, within 0..31, 0..15 and 0..127, so
\* that ptc + 32*tof + 512*current is the word read as unsigned 16-bit; the
\* stimulus mode and the pulse width are bits 2-3 and 4-5 of the status word.
C24_BitFieldsRecomposeTheWord ==
    /\ ret.op = "NMTGroup.Ptc" =>
          /\ ret.ptc \in 0..31
          /\ ret.tof \in 0..15
          /\ ret.current \in 0..127
          /\ ret.ptc + 32 * ret.tof + 512 * ret.current = ToUint16(ret.n.Ptc)
    /\ ret.op = "NMTGroup.Status" =>
          /\ ret.mode \in 0..3
          /\ ret.width \in 0..3
          /\ \E lo \in 0..3, hi \in 0..1023 :
                ret.n.Header.Status = lo + 4 * ret.mode + 16 * ret.width + 64 * hi

\* a negative Ptc whose three fields are all non-zero
C24_Witness ==
    /\ ret.op = "NMTGroup.Ptc"
    /\ ret.n.Ptc < 0
    /\ ret.ptc > 0 /\ ret.tof > 0 /\ ret.current >= 64

\* C26: the trend dispatcher and the alarm dispatcher resolve SrOffset from
\* the start of the record body: for one record and one slot both decode from
\* the same absolute byte, and that byte is never a header byte.
C26_DispatchersStartAtTheSameBodyByte ==
    ret.op = "dispatchers" =>
        /\ Len(ret.data) - Len(ret.trend) = Len(ret.data) - Len(ret.alarm)
        /\ Len(ret.data) - Len(ret.trend) >= DatexHeader_Size
        /\ Len(ret.data) - Len(ret.alarm) >= DatexHeader_Size

\* C27: the waveform decoders are total: for every buffer, a negative ActLen
\* included, ParseWaveformData and WaveformData.UnmarshalBinary return an error
\* or a result, never a run-time panic, and a successful decode holds exactly
\* ActLen samples with ActLen >= 0.
C27_WaveformDecodeIsTotal ==
    /\ ret.op = "ParseWaveformData" =>
          /\ ret.out.status \in {"ok", "err"}
          /\ ret.out.status = "ok" =>
                /\ ret.out.json[1].Header.ActLen >= 0
                /\ Len(ret.out.json[1].Samples) = ret.out.json[1].Header.ActLen
    /\ ret.op = "WaveformData.UnmarshalBinary" =>
          /\ ret.out.status \in {"ok", "err"}
          /\ ret.out.status = "ok" =>
                /\ ret.out.Header.ActLen >= 0
                /\ Len(ret.out.Samples[1]) = ret.out.Header.ActLen

\* C23: GetHighestPriorityAlarm returns nil exactly when GetActiveAlarmCount
\* is 0; otherwise it returns the lowest-index slot among the active slots
\* whose colour is the minimum non-zero colour of the message.
C23_NilIffNoActiveAlarmElseFirstMinimum ==
    ret.op = "GetHighestPriorityAlarm" =>
        /\ (ret.idx = -1) <=> (GetActiveAlarmCount(ret.msg) = 0)
        /\ ret.idx # -1 =>
              /\ ret.idx \in 0..4
              /\ AlarmDisplay_IsActiveAlarm(ret.msg.AlDisp[ret.idx])
              /\ \A c \in ActiveColors(ret.msg) : ret.msg.AlDisp[ret.idx].Color <= c
              /\ \A j \in 0..(ret.idx - 1) :
                    ret.msg.AlDisp[j].Color # ret.msg.AlDisp[ret.idx].Color


\* C25: ValidateTrendData takes the main type from the bytes the header
\* decoder assigns to RMainType: once the length and level checks pass, it
\* reports an invalid main type exactly when DatexHeader.UnmarshalBinary
\* yields a negative RMainType for the same buffer.
C25_ValidatorAndDecoderAgreeOnMainType ==
    Finished("ValidateTrendData") /\ Len(data) >= DatexHeader_Size
                                  /\ returned.err \in {"nil", "invalid main type"} =>
        (returned.err = "invalid main type"
            <=> DatexHeader_UnmarshalBinary(data).h.RMainType < 0)


\* the declared length of the record a splitter carved at offset off
CarvedLength(call, d, off) ==
    IF call = "ParseMultipleTrends" THEN Uint16(d, off)
    ELSE IF call = "ParseMultipleAlarms" THEN RLenAt(d, off)
    ELSE 6 + 2 * ToInt16(Uint16(d, off))

\* the attempts whose carved record is non-empty and lies inside the buffer
WholeRecords(call, d, atts) ==
    {i \in 1..Len(atts) : /\ CarvedLength(call, d, atts[i]) > 0
                            /\ atts[i] + CarvedLength(call, d, atts[i]) <= Len(d)}

\* the offset stays inside the buffer; the records handed to the record
\* decoder do not overlap, and no more records are returned than whole records
\* were carved out of the buffer
ScanStaysInBuffer ==
    returned.call \in Splitters =>
        /\ offset >= 0 /\ offset <= Len(data)
        /\ Len(results) <= Cardinality(WholeRecords(returned.call, data, attempts))
        /\ \A i \in 1..(Len(attempts) - 1) :
              attempts[i] + CarvedLength(returned.call, data, attempts[i]) <= attempts[i + 1]

\* an iteration that stays in the loop moves the offset forward
ScanAdvances == pc \in Splitters /\ pc' = pc => offset' > offset

\* C28: every stream splitter terminates: an iteration that does not leave
\* the loop strictly increases the offset, the offset never exceeds the buffer
\* length, and the records returned are at most the whole records the buffer
\* holds.
C28_SplittersTerminate == []ScanStaysInBuffer /\ [][ScanAdvances]_vars

\* a splitter went through MaxRecords - 1 or more iterations and consumed the
\* whole buffer
C28_Witness ==
    /\ pc = "done" /\ returned.call \in Splitters
    /\ Len(attempts) >= 2
    /\ offset = Len(data)


-----------------------------------------------------------------------------
(* Properties of the HL7 server (checked under SpecHL7)                    *)

\* C29: once Stop has returned the client registry is empty and stays empty,
\* and every accepted connection has been closed, whatever the interleaving of
\* Stop with the client handlers.
C29_AfterStopNothingIsRegisteredOrOpen ==
    stopPc = "returned" =>
        /\ clients = {}
        /\ \A c \in Clients : conn[c] # "open"


\* C30: no client handler blocks forever: a handler that has parsed a message
\* and stands at the send on messageChan eventually completes the send, and
\* later removes its client from the registry, closes its connection and
\* returns, also when the queue is full and processMessages has returned.
C30_HandlerThatParsedEventuallyExits ==
    \A c \in Clients : (handler[c] = "send") ~> (handler[c] = "exited")

====
